---- MODULE Spec2Model ----
(***************************************************************************)
(* Model of seed's install command (lib/commands/install.js): the          *)
(* InstallContext (descriptor cache, resolver, preparer, install jobs,     *)
(* dependency installer) and the command entry point exports.invoke.       *)
(*                                                                         *)
(* JavaScript runs callbacks to completion on one thread.  The model keeps *)
(* a stack of pending synchronous continuations (runq): the step actions   *)
(* (Run...) pop and execute the top continuation, and the actions that     *)
(* model the return of an asynchronous collaborator operation (...Return)  *)
(* fire only when that stack is empty.                                     *)
(***************************************************************************)
EXTENDS Integers, Sequences, FiniteSets, TLC

\* ------------------------------------------------------------------------
\* Bounds of the model
\* ------------------------------------------------------------------------

\* Number of collaborator failures the environment injects in one behaviour.
MaxFaults == 1

\* Number of descriptors built in one behaviour of the cache specification.
MaxCacheDescs == 3

\* ------------------------------------------------------------------------
\* Values
\* ------------------------------------------------------------------------

\* Strings the code inspects character by character are sequences of characters.
Foo == <<"f", "o", "o">>

Bar == <<"b", "a", "r">>

Baz == <<"b", "a", "z">>

PathFoo == <<".", "/", "f", "o", "o">>

PathAB == <<"a", "/", "b">>

PathUp == <<".", ".", "/", "x", "/", "y">>

\* A name no remote and no local package carries.
FooBar == <<"f", "o", "o", "-", "b", "a", "r">>

\* Packages whose dependencies form a cycle: Cyc depends on itself, Ping and
\* Pong on each other.
Cyc == <<"c", "y", "c">>

Ping == <<"p", "i", "n", "g">>

Pong == <<"p", "o", "n", "g">>

Names == {Foo, Bar, Baz, Cyc, Ping, Pong}

\* JavaScript's null and undefined where a descriptor (an index > 0 into descs) is expected.
Null == 0

Undefined == -1

IsDesc(x) == x > 0

\* An absent version (undefined) and an absent path (null) are empty strings.
NoVersion == <<>>

NoPath == <<>>

\* Errors handed to callbacks; NoErr is a callback invoked without an error.
Err(kind, name, version) == [kind |-> kind, name |-> name, version |-> version]

NoErr == Err("none", <<>>, <<>>)

IsErr(e) == e # NoErr

\* ------------------------------------------------------------------------
\* SEMVER (tiki): versions are strings "major.minor[.patch]", here the
\* sequence of their numbers.
\* ------------------------------------------------------------------------

normalize(v) == IF Len(v) = 2 THEN v \o <<0>> ELSE v

RECURSIVE compareFrom(_, _, _)
compareFrom(a, b, i) ==
  IF i > Len(a) THEN 0
  ELSE IF a[i] < b[i] THEN -1
  ELSE IF a[i] > b[i] THEN 1
  ELSE compareFrom(a, b, i + 1)

compare(a, b) == compareFrom(normalize(a), normalize(b), 1)

major(v) == v[1]

compatible(reqVers, curVers) ==
  \/ reqVers = NoVersion
  \/ /\ major(reqVers) = major(curVers)
     /\ compare(reqVers, curVers) <= 0

\* ------------------------------------------------------------------------
\* The world outside the process: remotes and local packages
\* ------------------------------------------------------------------------

Dep(id, v) == [packageId |-> id, version |-> v]

PackageInfo(n, v, deps) == [name |-> n, version |-> v, dependencies |-> deps]

\* What each remote holds.  Remote 3 is the remote REMOTE.openRemote builds
\* for a url that names no configured remote.
Catalog(r) ==
  IF r = 1 THEN << PackageInfo(Foo, <<1, 0>>, << Dep(Bar, <<1, 0>>) >>),
                   PackageInfo(Baz, <<1, 0>>, << Dep(Bar, <<1, 0>>) >>),
                   PackageInfo(Cyc, <<1, 0>>, << Dep(Cyc, <<1, 0>>) >>),
                   PackageInfo(Ping, <<1, 0>>, << Dep(Pong, <<1, 0>>) >>),
                   PackageInfo(Pong, <<1, 0>>, << Dep(Ping, <<1, 0>>) >>) >>
  ELSE IF r = 2 THEN << PackageInfo(Bar, <<1, 0>>, <<>>),
                        PackageInfo(Bar, <<1, 1>>, <<>>) >>
  ELSE <<>>

ConfiguredRemotes == <<1, 2>>

\* remote.list(opts): the packages of the remote that carry the asked name.
Listing(r, packageId) == SelectSeq(Catalog(r), LAMBDA info : info.name = packageId)

\* A number of a version as a character.
digit(n) == IF n = 0 THEN "0" ELSE IF n = 1 THEN "1" ELSE IF n = 2 THEN "2" ELSE "9"

\* The path remote.fetch stages a package at: /t/<name>-<version>.
StagedPath(info) ==
  <<"/", "t", "/">> \o info.name \o <<"-">> \o
    [i \in 1..Len(info.version) |-> digit(info.version[i])]

\* require.packageFor(path): the package found at a path of the filesystem.
LocalPaths == {PathFoo, PathAB, PathUp}

PackageAt(path) ==
  IF path = PathFoo
  THEN [name |-> Foo, version |-> <<1, 0>>, dependencies |-> << Dep(Bar, <<1, 0>>) >>,
        path |-> <<"/", "f", "o", "o">>]
  ELSE [name |-> Baz, version |-> <<1, 0>>, dependencies |-> <<>>,
        path |-> <<"/", "a", "/", "b">>]

\* ------------------------------------------------------------------------
\* State
\* ------------------------------------------------------------------------

VARIABLES
  descs,                \* every descriptor object built so far, by identity
  descriptors,          \* InstallContext.descriptors: name -> identities, in array order
  includeDependencies,  \* InstallContext.includeDependencies: "undefined", "true", "false"
  calls,                \* the invocations of InstallContext.install
  runq,                 \* stack of synchronous continuations still to run
  cmd,                  \* the state of one execution of exports.invoke
  faults,               \* collaborator failures injected so far
  lastAdd,              \* the latest addDescriptor: its arguments, effect and result
  lastSel               \* the latest descriptorFor: its arguments and result

vars == <<descs, descriptors, includeDependencies, calls, runq, cmd, faults, lastAdd, lastSel>>

\* ------------------------------------------------------------------------
\* Descriptors (lines 124-148).  prepareJob and installJob are the CORE.once
\* jobs attached to the descriptor; the remaining fields of a job (its
\* callers, its outcome) and the counters of collaborator calls are kept in
\* the same record.
\* ------------------------------------------------------------------------

JobFields ==
  [ prepareJob |-> "none",     \* none, pending, ok, err
    prepareErr |-> NoErr,
    installJob |-> "none",     \* none, start, prepare, deps, load, install, cleanup, done
    jobPackageId |-> <<>>,     \* packageId of the install call that created the job
    jobOut |-> NoErr,
    waiters |-> <<>>,          \* install calls whose callback awaits the install job
    pending |-> {},            \* dependency installs of the job still running
    depErr |-> NoErr,          \* first error of a dependency install
    fetches |-> 0,             \* remote.fetch calls for this descriptor
    installs |-> 0,            \* source.install calls for this descriptor
    cleanups |-> 0,            \* remote.cleanup calls for this descriptor
    cleanupPath |-> NoPath,    \* argument of the latest remote.cleanup
    jobRuns |-> 0,             \* executions of the install job body
    prefRead |-> "" ]          \* includeDependencies as installDependencies read it (line 326)

buildDescriptorFromPackage(pkg) ==
  [ name |-> pkg.name,
    version |-> normalize(pkg.version),
    dependencies |-> pkg.dependencies,
    remote |-> Null,
    info |-> PackageInfo(<<>>, <<>>, <<>>),
    path |-> pkg.path,
    location |-> "local" ] @@ JobFields

\* buildDescriptorFromRemote leaving the remote out.
buildDescriptorFromRemoteNoRemote(remotePackageInfo, remote) ==
  [ name |-> remotePackageInfo.name,
    version |-> normalize(remotePackageInfo.version),
    dependencies |-> remotePackageInfo.dependencies,
    remote |-> Null,
    info |-> remotePackageInfo,
    path |-> NoPath,
    location |-> "remote" ] @@ JobFields

buildDescriptorFromRemote(remotePackageInfo, remote) ==
  [ name |-> remotePackageInfo.name,
    version |-> normalize(remotePackageInfo.version),
    dependencies |-> remotePackageInfo.dependencies,
    remote |-> remote,
    info |-> remotePackageInfo,
    path |-> NoPath,
    location |-> "remote" ] @@ JobFields

\* ------------------------------------------------------------------------
\* Descriptor cache (lines 85-122)
\* ------------------------------------------------------------------------

\* this.descriptors[packageId]; a missing entry reads as the empty array.
cached(cache, packageId) == IF packageId \in DOMAIN cache THEN cache[packageId] ELSE <<>>

\* descriptorForLoop with the comparison of line 94 reversed.
RECURSIVE descriptorForLoopLowest(_, _, _, _, _, _)
descriptorForLoopLowest(heap, desc, version, exact, idx, ret) ==
  IF idx > Len(desc) THEN ret
  ELSE LET cur == desc[idx] IN
    IF version = NoVersion \/ (~exact /\ compatible(version, heap[cur].version))
    THEN descriptorForLoopLowest(heap, desc, version, exact, idx + 1,
           IF ~IsDesc(ret) \/ compare(heap[ret].version, heap[cur].version) > 0
           THEN cur ELSE ret)
    ELSE IF heap[cur].version = version
    THEN descriptorForLoopLowest(heap, desc, version, exact, idx + 1, cur)
    ELSE descriptorForLoopLowest(heap, desc, version, exact, idx + 1, ret)

RECURSIVE descriptorForLoop(_, _, _, _, _, _)
descriptorForLoop(heap, desc, version, exact, idx, ret) ==
  IF idx > Len(desc) THEN ret
  ELSE LET cur == desc[idx] IN
    IF version = NoVersion \/ (~exact /\ compatible(version, heap[cur].version))
    THEN descriptorForLoop(heap, desc, version, exact, idx + 1,
           IF ~IsDesc(ret) \/ compare(heap[ret].version, heap[cur].version) < 0
           THEN cur ELSE ret)
    ELSE IF heap[cur].version = version
    THEN descriptorForLoop(heap, desc, version, exact, idx + 1, cur)
    ELSE descriptorForLoop(heap, desc, version, exact, idx + 1, ret)

descriptorFor(heap, cache, packageId, version, exact) ==
  IF cached(cache, packageId) = <<>> THEN Null
  ELSE descriptorForLoop(heap, cached(cache, packageId), version, exact, 1, Undefined)

\* desc.length (line 112): a descriptor object has no length property.
descLength(desc) == Undefined

\* idx < lim in JavaScript: false when lim is undefined.
jsLess(idx, lim) == IF lim = Undefined THEN FALSE ELSE idx < lim

\* The loop of lines 113-115, idx counting from 0 as in the code: <<idx, found>>
\* on leaving the loop (idx has been incremented past the entry that matched).
RECURSIVE addDescriptorLoop(_, _, _, _, _, _)
addDescriptorLoop(heap, list, version, lim, idx, found) ==
  IF ~found /\ jsLess(idx, lim)
  THEN addDescriptorLoop(heap, list, version, lim, idx + 1,
                         heap[list[idx + 1]].version = version)
  ELSE <<idx, found>>

\* descriptors[idx] = desc (line 119), idx counting from 0.
arrayPut(list, idx, d) ==
  IF idx < Len(list) THEN [list EXCEPT ![idx + 1] = d] ELSE Append(list, d)

\* addDescriptor(desc, overlay) for the descriptor d of heap: the cache
\* afterwards and the value returned.
addDescriptor(heap, cache, d, overlay) ==
  LET packageId == heap[d].name
      list == cached(cache, packageId)
      lim == descLength(heap[d])
      left == addDescriptorLoop(heap, list, heap[d].version, lim, 0, FALSE)
      idx == left[1]
      found == left[2]
  IN IF found
     THEN IF ~overlay
          THEN [cache |-> cache, ret |-> FALSE]
          ELSE [cache |-> [cache EXCEPT ![packageId] = arrayPut(list, idx, d)], ret |-> TRUE]
     ELSE [cache |-> [cache EXCEPT ![packageId] = Append(list, d)], ret |-> TRUE]

\* ------------------------------------------------------------------------
\* Preparing (lines 216-242)
\* ------------------------------------------------------------------------

\* The body of the prepare job (lines 220-238) up to the point where it
\* either completes or waits for remote.fetch.
prepareBody(desc) ==
  IF desc.path # NoPath
  THEN [desc EXCEPT !.prepareJob = "ok"]
  ELSE IF desc.remote = Null
  THEN [desc EXCEPT !.prepareJob = "err",
                    !.prepareErr = Err("internal error: missing remote", desc.name, desc.version)]
  ELSE [desc EXCEPT !.prepareJob = "pending", !.fetches = @ + 1]

\* prepare(desc, done): the job is created and run on the first call only.
prepare(desc) == IF desc.prepareJob = "none" THEN prepareBody(desc) ELSE desc

\* The callback of remote.fetch (lines 230-237).
fetchCallback(desc, err, path) ==
  LET err2 == IF ~IsErr(err) /\ path = NoPath
              THEN Err("Could not fetch", <<"undefined">>, desc.version)
              ELSE err
  IN IF IsErr(err2)
     THEN [desc EXCEPT !.prepareJob = "err", !.prepareErr = err2]
     ELSE [desc EXCEPT !.path = path, !.prepareJob = "ok"]

\* ------------------------------------------------------------------------
\* Continuations and install calls
\* ------------------------------------------------------------------------

Task(kind, c, d, out) == [kind |-> kind, c |-> c, d |-> d, out |-> out]

Top == runq[1]

Pop == Tail(runq)

NewCall(packageId, version, exact, parent) ==
  [ packageId |-> packageId,
    version |-> version,
    exact |-> exact,
    parent |-> parent,      \* 0: a top-level request; d: a dependency of descriptor d
    pc |-> "start",         \* start, loadDescriptor, list, job, done
    remoteIdx |-> 0,        \* position in this.remotes of the remote being listed
    listed |-> <<>>,        \* the remotes this call has listed, in order
    sat |-> <<>>,           \* for each returned listing: did the cache then satisfy the request
    hit |-> FALSE,          \* the cache satisfied the request when findDescriptor was called
    viaPath |-> FALSE,      \* the call took the loadDescriptor branch of line 270
    missed |-> "",          \* at a "not found" (line 282): "cached" if the cache then
                            \* satisfied the request, "absent" if it did not
    ret |-> Null,           \* the variable ret of findDescriptor / the descriptor resolved
    result |-> NoErr,       \* the error given to the callback
    callbacks |-> 0 ]       \* times the callback of the call was invoked

\* looksLikePath without the test for a '/'.
looksLikePathDotOnly(packageId) == Len(packageId) > 0 /\ packageId[1] = "."

\* packageId[0] === '.' || packageId.indexOf('/') >= 0 (line 269)
looksLikePath(packageId) ==
  \/ Len(packageId) > 0 /\ packageId[1] = "."
  \/ \E i \in 1..Len(packageId) : packageId[i] = "/"

\* exact after line 178
findExact(version, exact) == IF version = NoVersion \/ ~exact THEN FALSE ELSE exact

\* The forEach of lines 191-195 over the listing of remote r: every listed
\* package becomes a new descriptor, is added without overlay and is prepared.
RECURSIVE mergeListing(_, _, _, _, _)
mergeListing(heap, cache, response, r, i) ==
  IF i > Len(response) THEN [heap |-> heap, cache |-> cache]
  ELSE LET desc == buildDescriptorFromRemote(response[i], r)
           d == Len(heap) + 1
           heap1 == Append(heap, desc)
           added == addDescriptor(heap1, cache, d, FALSE)
           heap2 == [heap1 EXCEPT ![d] = prepare(heap1[d])]
       IN mergeListing(heap2, added.cache, response, r, i + 1)

\* The error the callback of remote.list gives to CORE.iter.find when the
\* listing failed (lines 189-190): the failure is logged and not passed on.
scanError(err) == NoErr

\* stopScan answering "not found" whatever the cache holds.
stopScanNever(ret) == FALSE

\* done(null, !!ret) at line 198: whether the scan of the remotes stops.
stopScan(ret) == IsDesc(ret)

\* needsJob without the test of line 285: a job is created for every call.
needsJobAlways(desc) == TRUE

\* var job = desc.installJob; if (!job) ... (lines 284-285)
needsJob(desc) == desc.installJob = "none"

\* if (!includeDependencies) return done() (line 331), on the value read at line 326
skipDependencies(inc) == inc # "true"

\* defaultedPreference defaulting at every call.
defaultedPreferenceEachCall(inc, desc) ==
  IF desc.location = "remote" THEN "true" ELSE "false"

\* this.includeDependencies after lines 327-329
defaultedPreference(inc, desc) ==
  IF inc = "undefined"
  THEN (IF desc.location = "remote" THEN "true" ELSE "false")
  ELSE inc

\* prepareFailed letting a failed prepare through.
prepareFailedIgnored(err) == FALSE

\* if (err) return done(err) in the callback the install job gives to
\* prepare (line 291).
prepareFailed(err) == IsErr(err)

\* needsCleanup without the test of line 306.
needsCleanupAlways(desc) == TRUE

\* if (desc.remote) (line 306): the staged copy is cleaned up.
needsCleanup(desc) == desc.remote # Null

\* The install jobs in their prepare step among the descriptors ds, as the
\* continuations that receive the outcome out.
awaitingPrepare(ds, out) ==
  LET all == [i \in 1..Len(descs) |-> i]
      waiting == SelectSeq(all, LAMBDA e : e \in ds /\ descs[e].installJob = "prepare")
  IN [i \in 1..Len(waiting) |-> Task("prepared", Null, waiting[i], out)]

\* fetchContinuation with one prepare job for all the descriptors of a name.
fetchContinuationByName(d, out) ==
  awaitingPrepare({e \in DOMAIN descs : descs[e].name = descs[d].name}, out)

\* The callbacks the prepare job of descriptor d invokes when remote.fetch
\* has answered (job(done), line 241): CORE.noop for the prepare started by
\* findDescriptor (line 194), the callback of lines 290-293 for the install
\* job of d.
fetchContinuation(d, out) == awaitingPrepare({d}, out)

\* !err & !pkg (line 302): bitwise and of two booleans
invalidPackage(hasErr, hasPkg) ==
  ((IF ~hasErr THEN 1 ELSE 0) * (IF ~hasPkg THEN 1 ELSE 0)) # 0

\* Outcome of CORE.iter.parallel: the first error reported by a worker.
firstError(soFar, out) == IF IsErr(soFar) THEN soFar ELSE out

\* ------------------------------------------------------------------------
\* The command (lines 34-46 and 352-411)
\* ------------------------------------------------------------------------

NoUrl == <<>>

UrlTwo == <<"r", "2">>

UrlNew == <<"n", "e", "w">>

RemoteUrls == {NoUrl, UrlTwo, UrlNew}

\* REMOTE.open(url): the configured remote of that url, or null.
remoteOf(url) == IF url = UrlTwo THEN 2 ELSE Null

\* REMOTE.openRemote(url): a remote of the default type.
defaultRemote(url) == 3

ArgLists ==
  { <<>>, <<Foo>>, <<Bar>>, <<PathFoo>>, <<Foo, Foo>>, <<Foo, Baz>>,
    <<PathFoo, PathFoo>>, <<PathFoo, Baz>>, <<Foo, PathAB>>,
    <<PathUp>>, <<FooBar>>, <<Cyc>>, <<Ping>> }

ArgVersions == {NoVersion, <<1, 0, 0>>, <<1, 0>>}

Preferences == {"undefined", "true", "false"}

\* require.loader.sources: for each source, whether it accepts installs.
SourceLists == {<<>>, <<FALSE>>, <<FALSE, TRUE>>}

collectState(packageIds, version, remote, dependencies) ==
  [ dependencies |-> dependencies, version |-> version, remote |-> remote,
    packageIds |-> packageIds ]

\* packageIds.length === 0 (line 357)
noPackage(state) == Len(state.packageIds) = 0

\* versionMisuse with the test of line 361 left out.
versionMisuseIgnored(state) == FALSE

\* state.version && packageIds.length !== 1 (line 361)
versionMisuse(state) == state.version # NoVersion /\ Len(state.packageIds) # 1

\* The forEach of lines 369-371: the first source that accepts installs, 0 if none.
RECURSIVE firstSource(_, _, _)
firstSource(sources, i, source) ==
  IF i > Len(sources) THEN source
  ELSE firstSource(sources, i + 1, IF source = 0 /\ sources[i] THEN i ELSE source)

IdleCmd ==
  [ pc |-> "idle",          \* idle, failed, open, openRemote, remotes, installing, complete
    state |-> collectState(<<>>, NoVersion, NoUrl, "undefined"),
    sources |-> <<>>,
    source |-> 0,
    remotes |-> <<>>,       \* this.remotes of the context
    signals |-> <<>>,       \* the errors the completion callback was invoked with, in order
    opens |-> 0,            \* calls of REMOTE.open, REMOTE.openRemote and REMOTE.remotes
    contexts |-> 0,         \* InstallContext objects created
    pending |-> {},         \* top-level installs still running
    doneBefore |-> <<>>,    \* for each signal: were all top-level installs finished
    topErr |-> NoErr ]

\* Cmds.fail(message, done)
CmdsFail(c, message) ==
  [c EXCEPT !.pc = "failed", !.signals = Append(@, Err(message, <<>>, <<>>)),
            !.doneBefore = Append(@, FALSE)]

\* done(err) of the command: the completion callback is invoked.
signal(c, err) ==
  [c EXCEPT !.signals = Append(@, err),
            !.doneBefore = Append(@, c.contexts > 0 /\ c.pending = {})]

\* ------------------------------------------------------------------------
\* Initial state
\* ------------------------------------------------------------------------

NoAdd == [done |-> FALSE, existed |-> FALSE, overlay |-> FALSE, before |-> <<>>,
          after |-> <<>>, d |-> Null, ret |-> FALSE]

NoSel == [done |-> FALSE, packageId |-> <<>>, version |-> NoVersion, exact |-> FALSE,
          ret |-> Null]

Init ==
  /\ descs = <<>>
  /\ descriptors = [n \in Names |-> <<>>]
  /\ includeDependencies = "undefined"
  /\ calls = <<>>
  /\ runq = <<>>
  /\ cmd = IdleCmd
  /\ faults = 0
  /\ lastAdd = NoAdd
  /\ lastSel = NoSel

\* ------------------------------------------------------------------------
\* exports.invoke (lines 352-411)
\* ------------------------------------------------------------------------

\* The synchronous part of invoke: validation, the choice of the source, the
\* start of the chain that finds the remotes, and the return of line 410.
Invoke(packageIds, version, remote, dependencies, sources) ==
  /\ cmd.pc = "idle"
  /\ LET state == collectState(packageIds, version, remote, dependencies)
         source == firstSource(sources, 1, 0)
         c0 == [cmd EXCEPT !.state = state, !.sources = sources]
     IN cmd' =
          IF noPackage(state)
          THEN CmdsFail(c0, "You must name at least one package")
          ELSE IF versionMisuse(state)
          THEN CmdsFail(c0, "--version switch can only be used with one package name")
          ELSE IF source = 0
          THEN CmdsFail(c0, "Cannot find install location")
          ELSE signal([c0 EXCEPT !.source = source,
                                 !.opens = @ + 1,
                                 !.pc = IF state.remote # NoUrl THEN "open" ELSE "remotes"],
                      NoErr)
  /\ UNCHANGED <<descs, descriptors, includeDependencies, calls, runq, faults, lastAdd, lastSel>>

\* The second step of the chain (lines 402-408): the context is created and
\* install is launched for every packageId.
StartInstalls(remotes) ==
  LET ids == cmd.state.packageIds
      n == Len(ids)
  IN /\ cmd' = [cmd EXCEPT !.pc = "installing", !.remotes = remotes,
                           !.contexts = @ + 1, !.pending = 1..n]
     /\ includeDependencies' = cmd.state.dependencies
     /\ descriptors' = [x \in Names |-> <<>>]
     /\ calls' = [i \in 1..n |-> NewCall(ids[i], cmd.state.version, TRUE, 0)]
     /\ runq' = [i \in 1..n |-> Task("install", i, Null, NoErr)]
     /\ UNCHANGED <<descs, lastAdd, lastSel>>

\* The chain ends with an error before any install: done(err) at line 409.
ChainFails(message) ==
  /\ faults < MaxFaults
  /\ faults' = faults + 1
  /\ cmd' = [signal(cmd, Err(message, <<>>, <<>>)) EXCEPT !.pc = "complete"]
  /\ UNCHANGED <<descs, descriptors, includeDependencies, calls, runq, lastAdd, lastSel>>

\* The callback of REMOTE.open (lines 383-393).
RemoteOpenReturn(failed) ==
  /\ cmd.pc = "open"
  /\ IF failed THEN ChainFails("open failed")
     ELSE IF remoteOf(cmd.state.remote) # Null
     THEN StartInstalls(<<remoteOf(cmd.state.remote)>>) /\ UNCHANGED faults
     ELSE /\ cmd' = [cmd EXCEPT !.pc = "openRemote", !.opens = @ + 1]
          /\ UNCHANGED <<descs, descriptors, includeDependencies, calls, runq, faults,
                         lastAdd, lastSel>>

\* The callback of REMOTE.openRemote (lines 388-391).
OpenRemoteReturn(failed) ==
  /\ cmd.pc = "openRemote"
  /\ IF failed THEN ChainFails("openRemote failed")
     ELSE StartInstalls(<<defaultRemote(cmd.state.remote)>>) /\ UNCHANGED faults

\* The callback of REMOTE.remotes (line 396).
RemotesReturn(failed) ==
  /\ cmd.pc = "remotes"
  /\ IF failed THEN ChainFails("remotes failed")
     ELSE StartInstalls(ConfiguredRemotes) /\ UNCHANGED faults

\* ------------------------------------------------------------------------
\* InstallContext.install (lines 256-318) and findDescriptor (lines 173-206)
\* ------------------------------------------------------------------------

\* The first step of the chain of install (lines 267-277), with the part of
\* findDescriptor (lines 174-188) that runs before the first remote answers.
RunInstall ==
  /\ runq # <<>> /\ Top.kind = "install"
  /\ LET c == Top.c
         call == calls[c]
         ret == descriptorFor(descs, descriptors, call.packageId, call.version, call.exact)
     IN IF looksLikePath(call.packageId)
        THEN /\ calls' = [calls EXCEPT ![c].pc = "loadDescriptor", ![c].viaPath = TRUE]
             /\ runq' = Pop
        ELSE IF IsDesc(ret)
        THEN /\ calls' = [calls EXCEPT ![c].hit = TRUE, ![c].ret = ret]
             /\ runq' = <<Task("resolved", c, ret, NoErr)>> \o Pop
        ELSE IF cmd.remotes = <<>>
        THEN /\ calls' = [calls EXCEPT ![c].ret = ret]
             /\ runq' = <<Task("resolved", c, ret, NoErr)>> \o Pop
        ELSE /\ calls' = [calls EXCEPT ![c].pc = "list", ![c].ret = ret,
                                       ![c].remoteIdx = 1,
                                       ![c].listed = <<cmd.remotes[1]>>]
             /\ runq' = Pop
  /\ UNCHANGED <<descs, descriptors, includeDependencies, cmd, faults, lastAdd, lastSel>>

\* The callback of loadPackage in loadDescriptor (lines 162-167).
LoadDescriptorReturn(c, failed) ==
  /\ runq = <<>>
  /\ c \in DOMAIN calls /\ calls[c].pc = "loadDescriptor"
  /\ IF failed
     THEN /\ faults < MaxFaults
          /\ faults' = faults + 1
          /\ runq' = <<Task("callback", c, Null, Err("load failed", calls[c].packageId, <<>>))>>
          /\ calls' = [calls EXCEPT ![c].pc = "job"]
          /\ UNCHANGED <<descs, descriptors>>
     ELSE LET ret == buildDescriptorFromPackage(PackageAt(calls[c].packageId))
              d == Len(descs) + 1
              heap == Append(descs, ret)
          IN /\ descs' = heap
             /\ descriptors' = addDescriptor(heap, descriptors, d, TRUE).cache
             /\ calls' = [calls EXCEPT ![c].pc = "job", ![c].ret = d]
             /\ runq' = <<Task("resolved", c, d, NoErr)>>
             /\ UNCHANGED faults
  /\ UNCHANGED <<includeDependencies, cmd, lastAdd, lastSel>>

\* The callback of remote.list (lines 188-199) and the step of CORE.iter.find
\* that follows it: the next remote is listed, or the search ends (201-204).
ListReturn(c, failed) ==
  /\ runq = <<>>
  /\ c \in DOMAIN calls /\ calls[c].pc = "list"
  /\ failed => faults < MaxFaults
  /\ faults' = IF failed THEN faults + 1 ELSE faults
  /\ \E merged \in {IF failed THEN [heap |-> descs, cache |-> descriptors]
                     ELSE mergeListing(descs, descriptors,
                                       Listing(cmd.remotes[calls[c].remoteIdx], calls[c].packageId),
                                       cmd.remotes[calls[c].remoteIdx], 1)} :
     LET call == calls[c]
         ret == IF failed THEN call.ret
                ELSE descriptorFor(merged.heap, merged.cache, call.packageId, call.version,
                                   findExact(call.version, call.exact))
         found == IF failed THEN FALSE ELSE stopScan(ret)
         findErr == IF failed THEN scanError(Err("list failed", call.packageId, <<>>))
                    ELSE NoErr
         logged == [call EXCEPT !.ret = ret, !.sat = Append(@, ~failed /\ IsDesc(ret))]
     IN /\ descs' = merged.heap
        /\ descriptors' = merged.cache
        /\ IF IsErr(findErr)
           THEN /\ calls' = [calls EXCEPT ![c] = [logged EXCEPT !.pc = "job"]]
                /\ runq' = <<Task("callback", c, Null, findErr)>>
           ELSE IF found \/ call.remoteIdx >= Len(cmd.remotes)
           THEN /\ calls' = [calls EXCEPT ![c] = [logged EXCEPT !.pc = "job"]]
                /\ runq' = <<Task("resolved", c, ret, NoErr)>>
           ELSE /\ calls' = [calls EXCEPT ![c] =
                               [logged EXCEPT !.remoteIdx = @ + 1,
                                              !.listed = Append(@, cmd.remotes[call.remoteIdx + 1])]]
                /\ runq' = <<>>
  /\ UNCHANGED <<includeDependencies, cmd, lastAdd, lastSel>>

\* The second step of the chain of install (lines 281-317): the install job
\* of the descriptor is created if it has none, and the call awaits it.
RunResolved ==
  /\ runq # <<>> /\ Top.kind = "resolved"
  /\ LET c == Top.c
         d == Top.d
         now == descriptorFor(descs, descriptors, calls[c].packageId, calls[c].version,
                              findExact(calls[c].version, calls[c].exact))
     IN IF ~IsDesc(d)
        THEN /\ runq' = <<Task("callback", c, Null, Err("not found", calls[c].packageId, <<>>))>>
                        \o Pop
             /\ calls' = [calls EXCEPT ![c].pc = "job",
                                       ![c].missed = IF IsDesc(now) THEN "cached" ELSE "absent"]
             /\ UNCHANGED descs
        ELSE /\ calls' = [calls EXCEPT ![c].pc = "job"]
             /\ IF needsJob(descs[d])
                THEN /\ descs' = [descs EXCEPT ![d].installJob = "start",
                                               ![d].jobPackageId = calls[c].packageId,
                                               ![d].waiters = <<c>>]
                     /\ runq' = <<Task("job", Null, d, NoErr)>> \o Pop
                ELSE IF descs[d].installJob = "done"
                THEN /\ runq' = <<Task("callback", c, Null, descs[d].jobOut)>> \o Pop
                     /\ UNCHANGED descs
                ELSE /\ descs' = [descs EXCEPT ![d].waiters = Append(@, c)]
                     /\ runq' = Pop
  /\ UNCHANGED <<descriptors, includeDependencies, cmd, faults, lastAdd, lastSel>>

\* The install job starts (lines 286-290): it prepares its descriptor.
RunJob ==
  /\ runq # <<>> /\ Top.kind = "job"
  /\ LET d == Top.d
         prepared == prepare(descs[d])
     IN /\ descs' = [descs EXCEPT ![d] = [prepared EXCEPT !.installJob = "prepare",
                                                          !.jobRuns = @ + 1]]
        /\ runq' = IF prepared.prepareJob = "pending"
                   THEN Pop
                   ELSE <<Task("prepared", Null, d, prepared.prepareErr)>> \o Pop
  /\ UNCHANGED <<descriptors, includeDependencies, calls, cmd, faults, lastAdd, lastSel>>

\* The callback of remote.fetch (lines 230-237); the install job of the
\* descriptor goes on if it awaits the prepare job.
FetchReturn(d, outcome) ==
  /\ runq = <<>>
  /\ d \in DOMAIN descs /\ descs[d].prepareJob = "pending"
  /\ outcome # "path" => faults < MaxFaults
  /\ faults' = IF outcome # "path" THEN faults + 1 ELSE faults
  /\ LET err == IF outcome = "error"
                THEN Err("fetch failed", descs[d].name, descs[d].version) ELSE NoErr
         path == IF outcome = "path" THEN StagedPath(descs[d].info) ELSE NoPath
         fetched == fetchCallback(descs[d], err, path)
     IN /\ descs' = [descs EXCEPT ![d] = fetched]
        /\ runq' = fetchContinuation(d, fetched.prepareErr)
  /\ UNCHANGED <<descriptors, includeDependencies, calls, cmd, lastAdd, lastSel>>

\* The callback given to prepare by the install job (lines 290-293) and
\* installDependencies (lines 323-344).
RunPrepared ==
  /\ runq # <<>> /\ Top.kind = "prepared"
  /\ LET d == Top.d
         inc == includeDependencies
         deps == descs[d].dependencies
         n == Len(deps)
         base == Len(calls)
     IN IF prepareFailed(Top.out)
        THEN /\ runq' = <<Task("jobdone", Null, d, Top.out)>> \o Pop
             /\ UNCHANGED <<descs, calls, includeDependencies>>
        ELSE /\ includeDependencies' = defaultedPreference(inc, descs[d])
             /\ IF skipDependencies(inc) \/ n = 0
                THEN /\ descs' = [descs EXCEPT ![d].installJob = "load", ![d].prefRead = inc]
                     /\ runq' = Pop
                     /\ UNCHANGED calls
                ELSE /\ descs' = [descs EXCEPT ![d].installJob = "deps", ![d].prefRead = inc,
                                               ![d].pending = (base + 1)..(base + n)]
                     /\ calls' = calls \o
                          [i \in 1..n |-> NewCall(deps[i].packageId, deps[i].version, FALSE, d)]
                     /\ runq' = [i \in 1..n |-> Task("install", base + i, Null, NoErr)] \o Pop
  /\ UNCHANGED <<descriptors, cmd, faults, lastAdd, lastSel>>

\* The callback of loadPackage in the install job (lines 301-304).
LoadPackageReturn(d, outcome) ==
  /\ runq = <<>>
  /\ d \in DOMAIN descs /\ descs[d].installJob = "load"
  /\ outcome # "package" => faults < MaxFaults
  /\ faults' = IF outcome # "package" THEN faults + 1 ELSE faults
  /\ LET hasErr == outcome = "error"
         hasPkg == outcome = "package"
         err == IF invalidPackage(hasErr, hasPkg)
                THEN Err("is invalid", descs[d].jobPackageId, <<>>)
                ELSE IF hasErr THEN Err("package load failed", descs[d].path, <<>>) ELSE NoErr
     IN IF IsErr(err)
        THEN /\ runq' = <<Task("jobdone", Null, d, err)>>
             /\ UNCHANGED descs
        ELSE /\ descs' = [descs EXCEPT ![d].installJob = "install", ![d].installs = @ + 1]
             /\ runq' = <<>>
  /\ UNCHANGED <<descriptors, includeDependencies, calls, cmd, lastAdd, lastSel>>

\* The callback of source.install (lines 304-309).
SourceInstallReturn(d, failed) ==
  /\ runq = <<>>
  /\ d \in DOMAIN descs /\ descs[d].installJob = "install"
  /\ failed => faults < MaxFaults
  /\ faults' = IF failed THEN faults + 1 ELSE faults
  /\ IF failed
     THEN /\ runq' = <<Task("jobdone", Null, d, Err("install failed", descs[d].name, <<>>))>>
          /\ UNCHANGED descs
     ELSE IF needsCleanup(descs[d])
     THEN /\ descs' = [descs EXCEPT ![d].installJob = "cleanup", ![d].cleanups = @ + 1,
                                    ![d].cleanupPath = descs[d].path]
          /\ runq' = <<>>
     ELSE /\ runq' = <<Task("jobdone", Null, d, NoErr)>>
          /\ UNCHANGED descs
  /\ UNCHANGED <<descriptors, includeDependencies, calls, cmd, lastAdd, lastSel>>

\* The callback of remote.cleanup (line 307).
CleanupReturn(d, failed) ==
  /\ runq = <<>>
  /\ d \in DOMAIN descs /\ descs[d].installJob = "cleanup"
  /\ failed => faults < MaxFaults
  /\ faults' = IF failed THEN faults + 1 ELSE faults
  /\ runq' = <<Task("jobdone", Null, d,
                    IF failed THEN Err("cleanup failed", descs[d].path, <<>>) ELSE NoErr)>>
  /\ UNCHANGED <<descs, descriptors, includeDependencies, calls, cmd, lastAdd, lastSel>>

\* The install job completes: every caller that awaits it is called back
\* (job(done), line 315).
RunJobDone ==
  /\ runq # <<>> /\ Top.kind = "jobdone"
  /\ LET d == Top.d
         ws == descs[d].waiters
     IN /\ descs' = [descs EXCEPT ![d].installJob = "done", ![d].jobOut = Top.out,
                                  ![d].waiters = <<>>]
        /\ runq' = [i \in 1..Len(ws) |-> Task("callback", ws[i], Null, Top.out)] \o Pop
  /\ UNCHANGED <<descriptors, includeDependencies, calls, cmd, faults, lastAdd, lastSel>>

\* The callback of an install call: a worker of CORE.iter.parallel ends, for
\* the command (lines 405-409; install takes the callback from its fourth
\* argument, lines 260-263) or for installDependencies (lines 341-343).
RunCallback ==
  /\ runq # <<>> /\ Top.kind = "callback"
  /\ LET c == Top.c
         p == calls[c].parent
     IN /\ calls' = [calls EXCEPT ![c].pc = "done", ![c].result = Top.out,
                                  ![c].callbacks = @ + 1]
        /\ IF p = 0
           THEN LET left == cmd.pending \ {c}
                    err == firstError(cmd.topErr, Top.out)
                    c1 == [cmd EXCEPT !.pending = left, !.topErr = err]
                IN /\ cmd' = IF left = {} /\ cmd.pending # {}
                             THEN [signal(c1, err) EXCEPT !.pc = "complete"]
                             ELSE c1
                   /\ runq' = Pop
                   /\ UNCHANGED descs
           ELSE LET left == descs[p].pending \ {c}
                    err == firstError(descs[p].depErr, Top.out)
                IN /\ cmd' = cmd
                   /\ IF left = {} /\ descs[p].pending # {}
                      THEN IF IsErr(err)
                           THEN /\ descs' = [descs EXCEPT ![p].pending = left, ![p].depErr = err]
                                /\ runq' = <<Task("jobdone", Null, p, err)>> \o Pop
                           ELSE /\ descs' = [descs EXCEPT ![p].pending = left,
                                                          ![p].installJob = "load"]
                                /\ runq' = Pop
                      ELSE /\ descs' = [descs EXCEPT ![p].pending = left, ![p].depErr = err]
                           /\ runq' = Pop
  /\ UNCHANGED <<descriptors, includeDependencies, faults, lastAdd, lastSel>>

\* ------------------------------------------------------------------------
\* Specification of one execution of the command
\* ------------------------------------------------------------------------

Next ==
  \/ \E packageIds \in ArgLists, version \in ArgVersions, remote \in RemoteUrls,
        dependencies \in Preferences, sources \in SourceLists :
       Invoke(packageIds, version, remote, dependencies, sources)
  \/ \E failed \in BOOLEAN : RemoteOpenReturn(failed)
  \/ \E failed \in BOOLEAN : OpenRemoteReturn(failed)
  \/ \E failed \in BOOLEAN : RemotesReturn(failed)
  \/ RunInstall
  \/ \E c \in DOMAIN calls, failed \in BOOLEAN : LoadDescriptorReturn(c, failed)
  \/ \E c \in DOMAIN calls, failed \in BOOLEAN : ListReturn(c, failed)
  \/ RunResolved
  \/ RunJob
  \/ \E d \in DOMAIN descs, outcome \in {"path", "error", "nopath"} : FetchReturn(d, outcome)
  \/ RunPrepared
  \/ \E d \in DOMAIN descs, outcome \in {"package", "error", "nothing"} :
       LoadPackageReturn(d, outcome)
  \/ \E d \in DOMAIN descs, failed \in BOOLEAN : SourceInstallReturn(d, failed)
  \/ \E d \in DOMAIN descs, failed \in BOOLEAN : CleanupReturn(d, failed)
  \/ RunJobDone
  \/ RunCallback

Spec == Init /\ [][Next]_vars

\* The same execution when every collaborator operation eventually calls
\* back and every continuation that is due eventually runs: a step that can
\* be taken is eventually taken.
SpecLive == Spec /\ WF_vars(Next)

\* ------------------------------------------------------------------------
\* Specification of the descriptor cache alone: addDescriptor and
\* descriptorFor applied to bounded inputs, from the empty cache.
\* ------------------------------------------------------------------------

CacheNames == {Foo, Bar}

CacheVersions == {<<1, 0>>, <<1, 1>>, <<2, 0>>}

CacheRequests == {NoVersion, <<1, 0>>, <<1, 0, 0>>, <<1, 1, 0>>, <<2, 0, 0>>}

\* Is a descriptor of that name and version in the array of the name.
holds(heap, cache, name, version) ==
  \E i \in 1..Len(cached(cache, name)) : heap[cached(cache, name)[i]].version = version

CacheAdd(name, version, overlay) ==
  /\ Len(descs) < MaxCacheDescs
  /\ LET desc == buildDescriptorFromRemote(PackageInfo(name, version, <<>>), 1)
         d == Len(descs) + 1
         heap == Append(descs, desc)
         added == addDescriptor(heap, descriptors, d, overlay)
     IN /\ descs' = heap
        /\ descriptors' = added.cache
        /\ lastAdd' = [done |-> TRUE,
                       existed |-> holds(descs, descriptors, desc.name, desc.version),
                       overlay |-> overlay,
                       before |-> descriptors[name],
                       after |-> added.cache[name],
                       d |-> d,
                       ret |-> added.ret]
        /\ lastSel' = NoSel
  /\ UNCHANGED <<includeDependencies, calls, runq, cmd, faults>>

CacheSelect(packageId, version, exact) ==
  /\ lastSel' = [done |-> TRUE, packageId |-> packageId, version |-> version,
                 exact |-> exact,
                 ret |-> descriptorFor(descs, descriptors, packageId, version, exact)]
  /\ UNCHANGED <<descs, descriptors, includeDependencies, calls, runq, cmd, faults, lastAdd>>

NextCache ==
  \/ \E name \in CacheNames, version \in CacheVersions, overlay \in BOOLEAN :
       CacheAdd(name, version, overlay)
  \/ \E packageId \in Names, version \in CacheRequests, exact \in BOOLEAN :
       CacheSelect(packageId, version, exact)

SpecCache == Init /\ [][NextCache]_vars

\* ------------------------------------------------------------------------
\* Properties
\* ------------------------------------------------------------------------

SamePackage(d, e) == descs[d].name = descs[e].name /\ descs[d].version = descs[e].version

\* The install calls that reached descriptor d (second step of the chain of install).
Callers(d) == {c \in DOMAIN calls : calls[c].ret = d /\ calls[c].pc \in {"job", "done"}}

\* C1: within one context, source.install is invoked at most once for every
\* package (name, version), however the package is referenced.
C1_InstallOncePerPackage ==
  \A d \in DOMAIN descs :
    /\ descs[d].installs <= 1
    /\ \A e \in DOMAIN descs :
         (d # e /\ SamePackage(d, e)) => ~(descs[d].installs > 0 /\ descs[e].installs > 0)

\* C2 as stated: for a descriptor reached by two or more install calls the
\* job body runs once, source.install is invoked exactly once when staging
\* and the dependencies succeeded, and all callers get the same outcome.
C2_SharedJobAsStated ==
  \A d \in DOMAIN descs :
    Cardinality(Callers(d)) >= 2 =>
      /\ descs[d].jobRuns <= 1
      /\ descs[d].installs <= 1
      /\ (descs[d].installJob = "done" /\ descs[d].prepareJob = "ok" /\ ~IsErr(descs[d].depErr))
           => descs[d].installs = 1
      /\ \A c \in Callers(d) :
           calls[c].pc = "done" =>
             /\ descs[d].installJob = "done"
             /\ calls[c].result = descs[d].jobOut

\* C2 amended: for a descriptor reached by two or more install calls the job
\* body runs once, source.install is invoked at most once, and exactly once
\* when staging, the dependencies and the load of the staged package
\* succeeded; all callers get the same outcome.
C2_SharedJob ==
  \A d \in DOMAIN descs :
    Cardinality(Callers(d)) >= 2 =>
      /\ descs[d].jobRuns <= 1
      /\ descs[d].installs <= 1
      /\ (/\ descs[d].installJob = "done"
          /\ descs[d].prepareJob = "ok"
          /\ ~IsErr(descs[d].depErr)
          /\ descs[d].jobOut.kind \notin {"package load failed", "is invalid"})
           => descs[d].installs = 1
      /\ \A c \in Callers(d) :
           calls[c].pc = "done" =>
             /\ descs[d].installJob = "done"
             /\ calls[c].result = descs[d].jobOut

\* Two calls reached one descriptor, its job installed it and both were called back.
C2_Witness ==
  \E d \in DOMAIN descs :
    /\ Cardinality(Callers(d)) >= 2
    /\ descs[d].installJob = "done"
    /\ descs[d].installs = 1
    /\ \A c \in Callers(d) : calls[c].pc = "done" /\ calls[c].result = NoErr

\* C3: within one session, remote.fetch is invoked at most once for every
\* package (name, version).
C3_FetchOncePerPackage ==
  \A d \in DOMAIN descs :
    /\ descs[d].fetches <= 1
    /\ \A e \in DOMAIN descs :
         (d # e /\ SamePackage(d, e)) => ~(descs[d].fetches > 0 /\ descs[e].fetches > 0)

\* C4: when the preference is unset at the first installDependencies call, a
\* local descriptor has none of its dependencies installed, and a remote
\* descriptor has install called and completed for every dependency entry
\* before it is handed to the destination.
C4_DefaultPreference ==
  \A d \in DOMAIN descs :
    descs[d].prefRead = "undefined" =>
      /\ descs[d].location = "local" => \A c \in DOMAIN calls : calls[c].parent # d
      /\ (descs[d].location = "remote" /\ descs[d].installs > 0) =>
           \A i \in 1..Len(descs[d].dependencies) :
             \E c \in DOMAIN calls :
               /\ calls[c].parent = d
               /\ calls[c].packageId = descs[d].dependencies[i].packageId
               /\ calls[c].version = descs[d].dependencies[i].version
               /\ calls[c].pc = "done"
               /\ calls[c].result = NoErr

\* C5: addDescriptor(desc, overlay): if the cache holds a descriptor of the
\* name and version, overlay=false leaves the cache unchanged and returns
\* false, overlay=true replaces that entry in place and returns true;
\* otherwise desc is appended and true is returned.
C5_AddDescriptor ==
  lastAdd.done =>
    IF lastAdd.existed
    THEN IF ~lastAdd.overlay
         THEN lastAdd.after = lastAdd.before /\ lastAdd.ret = FALSE
         ELSE /\ lastAdd.ret = TRUE
              /\ Len(lastAdd.after) = Len(lastAdd.before)
              /\ \E i \in 1..Len(lastAdd.before) :
                   /\ SamePackage(lastAdd.before[i], lastAdd.d)
                   /\ lastAdd.after = [lastAdd.before EXCEPT ![i] = lastAdd.d]
    ELSE lastAdd.after = Append(lastAdd.before, lastAdd.d) /\ lastAdd.ret = TRUE

\* C6: in every reachable state of a session the cache holds at most one
\* descriptor per (name, version).
C6_OneDescriptorPerVersion ==
  \A n \in DOMAIN descriptors :
    \A i, j \in 1..Len(descriptors[n]) :
      i # j => descs[descriptors[n][i]].version # descs[descriptors[n][j]].version

\* The cached descriptors of lastSel.packageId that qualify for the request.
Qualifying ==
  LET list == cached(descriptors, lastSel.packageId)
  IN { list[i] : i \in { k \in 1..Len(list) :
         IF lastSel.version = NoVersion THEN TRUE
         ELSE IF ~lastSel.exact THEN compatible(lastSel.version, descs[list[k]].version)
         ELSE descs[list[k]].version = lastSel.version } }

C8_SequentialScan ==
  \A c \in DOMAIN calls :
    LET call == calls[c] IN
    /\ call.hit => call.listed = <<>>
    /\ Len(call.listed) <= Len(cmd.remotes)
    /\ \A i \in 1..Len(call.listed) : call.listed[i] = cmd.remotes[i]
    /\ Len(call.sat) = (IF call.pc = "list" THEN Len(call.listed) - 1 ELSE Len(call.listed))
    /\ \A i \in 1..Len(call.sat) : call.sat[i] => i = Len(call.listed)

\* A call whose first listing satisfied it ended without listing the second
\* remote, and another call went on to the second remote after an empty first listing.
C8_Witness ==
  /\ Len(cmd.remotes) = 2
  /\ \E c \in DOMAIN calls :
       calls[c].pc = "done" /\ calls[c].listed = <<1>> /\ calls[c].sat = <<TRUE>>
  /\ \E c \in DOMAIN calls :
       calls[c].pc = "done" /\ calls[c].listed = <<1, 2>> /\ calls[c].sat = <<FALSE, TRUE>>

\* C9: one execution of invoke signals its outcome exactly once, and with a
\* valid input only after every top-level install has completed or failed,
\* with an error if one of them failed.
C9_SingleSignal ==
  /\ Len(cmd.signals) <= 1
  /\ cmd.pc = "complete" => Len(cmd.signals) = 1
  /\ \A i \in 1..Len(cmd.signals) :
       (cmd.pc # "failed" /\ cmd.contexts > 0) =>
         /\ cmd.doneBefore[i]
         /\ (\E c \in DOMAIN calls : calls[c].parent = 0 /\ IsErr(calls[c].result))
              => IsErr(cmd.signals[i])
  /\ \A i \in 1..Len(cmd.signals) :
       (cmd.pc # "failed" /\ ~IsErr(cmd.signals[i])) => cmd.doneBefore[i]

\* C10: with no package named, with --version and a number of package ids
\* other than one, or with no source that accepts installs, invoke fails with
\* the corresponding error and opens or lists no remote, fetches nothing,
\* creates no context and invokes no install.
C10_InvalidInput ==
  LET none == Len(cmd.state.packageIds) = 0
      misuse == cmd.state.version # NoVersion /\ Len(cmd.state.packageIds) # 1
      nowhere == \A i \in 1..Len(cmd.sources) : ~cmd.sources[i]
  IN (cmd.pc # "idle" /\ (none \/ misuse \/ nowhere)) =>
       /\ cmd.pc = "failed"
       /\ Len(cmd.signals) = 1
       /\ \/ none /\ cmd.signals[1].kind = "You must name at least one package"
          \/ misuse /\ cmd.signals[1].kind =
                         "--version switch can only be used with one package name"
          \/ nowhere /\ cmd.signals[1].kind = "Cannot find install location"
       /\ cmd.opens = 0
       /\ cmd.contexts = 0
       /\ calls = <<>>
       /\ descs = <<>>

\* Two package ids with --version were refused, a source accepting installs being there.
C10_Witness ==
  /\ cmd.pc = "failed"
  /\ Len(cmd.state.packageIds) = 2
  /\ cmd.state.version # NoVersion
  /\ \E i \in 1..Len(cmd.sources) : cmd.sources[i]
  /\ cmd.opens = 0

\* C11: an install call for an identifier fails with "<id> not found"
\* exactly when neither the cache nor any configured remote yields a
\* descriptor that qualifies: it has then scanned every remote, no listing
\* satisfied it and the cache holds nothing that qualifies; a failed listing
\* counts as an empty one, and the call never fails on the list error.
C11_NotFound ==
  \A c \in DOMAIN calls :
    LET call == calls[c]
        yielded == call.hit \/ \E i \in 1..Len(call.sat) : call.sat[i]
        notFound == call.result = Err("not found", call.packageId, <<>>)
    IN (call.pc = "done" /\ ~call.viaPath) =>
         /\ call.result.kind # "list failed"
         /\ notFound <=> ~yielded
         /\ notFound =>
               /\ call.listed = cmd.remotes
               /\ call.missed = "absent"

\* C12: remote.cleanup is invoked for a descriptor at most once, only for a
\* descriptor of remote origin, only after source.install of that descriptor
\* has succeeded, and with the path the descriptor was staged at; the
\* outcome of cleanup is the outcome of the install job, which every caller
\* of the job receives, a cleanup failure included.
C12_Cleanup ==
  \A d \in DOMAIN descs :
    LET desc == descs[d] IN
      /\ desc.cleanups <= 1
      /\ desc.cleanups > 0 =>
           /\ desc.location = "remote" /\ desc.remote # Null
           /\ desc.installs = 1
           /\ desc.installJob \in {"cleanup", "done"}
           /\ desc.path = StagedPath(desc.info)
           /\ desc.cleanupPath = desc.path
           /\ desc.jobOut \in {NoErr, Err("cleanup failed", desc.path, <<>>)}
           /\ desc.installJob = "done" =>
                \A c \in Callers(d) : calls[c].pc = "done" => calls[c].result = desc.jobOut

\* A package was installed, its cleanup failed and a caller was told so.
C12_Witness ==
  \E d \in DOMAIN descs :
    /\ descs[d].installs = 1 /\ descs[d].cleanups = 1
    /\ descs[d].installJob = "done"
    /\ descs[d].jobOut.kind = "cleanup failed"
    /\ \E c \in Callers(d) : calls[c].pc = "done" /\ calls[c].result = descs[d].jobOut

\* The arguments of the model that begin with '.' or contain '/': "./foo",
\* "../x/y" and "a/b"; "foo", "bar", "baz", "foo-bar", "cyc", "ping" and
\* "pong" do neither.
NamesPath(packageId) == packageId \in {PathFoo, PathUp, PathAB}

\* C13: install treats its argument as a path exactly when it begins with
\* '.' or contains '/' ("./foo", "../x/y" and "a/b" are paths, "foo" and
\* "foo-bar" identifiers); for a path the descriptor is built from the
\* package at that path, with local origin, is put in the cache, and no
\* remote is listed to resolve the argument.
C13_PathOrIdentifier ==
  \A c \in DOMAIN calls :
    LET call == calls[c] IN
      call.pc # "start" =>
        /\ call.viaPath <=> NamesPath(call.packageId)
        /\ call.viaPath =>
             /\ call.listed = <<>> /\ call.sat = <<>> /\ ~call.hit
             /\ IsDesc(call.ret) =>
                  /\ descs[call.ret].location = "local"
                  /\ descs[call.ret].remote = Null
                  /\ descs[call.ret].name = PackageAt(call.packageId).name
                  /\ descs[call.ret].path = PackageAt(call.packageId).path
                  /\ \E i \in DOMAIN descriptors[descs[call.ret].name] :
                       descriptors[descs[call.ret].name][i] = call.ret
        /\ ~call.viaPath => call.pc # "loadDescriptor"

\* "a/b" was installed from the local package, "foo" beside it from a remote.
C13_Witness ==
  /\ \E c \in DOMAIN calls :
       /\ calls[c].packageId = PathAB /\ calls[c].pc = "done" /\ calls[c].viaPath
       /\ IsDesc(calls[c].ret) /\ descs[calls[c].ret].installs = 1
  /\ \E c \in DOMAIN calls :
       /\ calls[c].packageId = Foo /\ calls[c].pc = "done" /\ ~calls[c].viaPath
       /\ calls[c].listed # <<>>

\* The dependency installs launched by the install job of descriptor d.
Launched(d) == {c \in DOMAIN calls : calls[c].parent = d}

\* C14: for every descriptor d, dependency installs are launched only after
\* the staging of d succeeded; source.install of d is invoked only when d is
\* staged (its path is set) and every dependency install launched for d has
\* reported success; when the staging of d or a launched dependency install
\* fails, source.install of d is never invoked and the job of d fails.
C14_JobOrder ==
  \A d \in DOMAIN descs :
    LET desc == descs[d]
        failed == \/ desc.prepareJob = "err"
                  \/ \E c \in Launched(d) : calls[c].pc = "done" /\ IsErr(calls[c].result)
    IN /\ Launched(d) # {} => (desc.prepareJob = "ok" /\ desc.path # NoPath)
       /\ desc.installJob \in {"load", "install", "cleanup"} \/ desc.installs > 0 =>
            /\ desc.prepareJob = "ok" /\ desc.path # NoPath
            /\ \A c \in Launched(d) : calls[c].pc = "done" /\ calls[c].result = NoErr
       /\ failed =>
            /\ desc.installs = 0
            /\ desc.installJob \notin {"load", "install", "cleanup"}
            /\ desc.installJob = "done" => IsErr(desc.jobOut)

\* One package was installed after its dependency, and the job of another
\* failed, without an install, because its dependency install failed.
C14_Witness ==
  /\ \E d \in DOMAIN descs :
       /\ descs[d].installs = 1 /\ Launched(d) # {}
       /\ \A c \in Launched(d) : calls[c].pc = "done" /\ calls[c].result = NoErr
  /\ \E d \in DOMAIN descs :
       /\ descs[d].installJob = "done" /\ descs[d].installs = 0
       /\ \E c \in Launched(d) : calls[c].pc = "done" /\ IsErr(calls[c].result)

\* The descriptors whose staging failed and that no install call selected:
\* the fetch that failed was the one findDescriptor started (line 194).
Unselected == {d \in DOMAIN descs : descs[d].prepareJob = "err" /\ descs[d].installJob = "none"}

\* C15: a failure of the staging that findDescriptor starts in the
\* background fails neither the resolution nor the install of another
\* descriptor: as long as the only collaborator failures are fetches of
\* descriptors no install call selected, every listing that satisfied a
\* request resolved it, no install job and no install call ends with a
\* collaborator error, and a selected descriptor that went through its job
\* was installed.
C15_BackgroundStaging ==
  faults = Cardinality(Unselected) =>
    /\ \A c \in DOMAIN calls :
         /\ calls[c].result.kind \in {"none", "not found"}
         /\ (calls[c].pc \in {"job", "done"} /\ \E i \in DOMAIN calls[c].sat : calls[c].sat[i])
              => IsDesc(calls[c].ret)
    /\ \A d \in DOMAIN descs :
         /\ descs[d].jobOut.kind \in {"none", "not found"}
         /\ descs[d].installJob # "none" => descs[d].prepareJob # "err"
         /\ (descs[d].installJob = "done" /\ descs[d].jobOut = NoErr) => descs[d].installs = 1
    /\ cmd.topErr.kind \in {"none", "not found"}

\* A remote listed two versions of a package, the fetch of the version not
\* selected failed and the selected version was installed.
C15_Witness ==
  \E d \in Unselected, e \in DOMAIN descs :
    /\ descs[e].name = descs[d].name /\ descs[e].version # descs[d].version
    /\ descs[e].remote = descs[d].remote
    /\ descs[e].installJob = "done" /\ descs[e].jobOut = NoErr /\ descs[e].installs = 1
    /\ \E c \in Callers(e) : calls[c].pc = "done" /\ calls[c].result = NoErr

\* C16: when a descriptor without a path is prepared and remote.fetch
\* reports an error or succeeds without a path, prepare fails and the path
\* stays unset; in the case without a path the failure names the package
\* name and the version of the descriptor; when fetch gives a path, the path
\* is set when prepare reports success.
C16_PrepareOutcome ==
  \A d \in DOMAIN descs :
    LET desc == descs[d] IN
      /\ desc.prepareJob = "err" => (desc.path = NoPath /\ IsErr(desc.prepareErr))
      /\ desc.prepareErr.kind = "Could not fetch" =>
           /\ desc.prepareErr.version = desc.version
           /\ desc.prepareErr.name = desc.name
      /\ desc.prepareJob = "ok" => desc.path # NoPath
      /\ (desc.prepareJob = "ok" /\ desc.fetches > 0) => desc.path = StagedPath(desc.info)

\* C17: includeDependencies changes at most once, from unset to the value
\* the first installDependencies call defaults it to; once it is true or
\* false it never changes, and every later installDependencies call acts on
\* it whatever the origin of its descriptor: when false no dependency install
\* is launched, when true one is launched for every dependency.
C17_PreferenceFixed ==
  /\ [][(includeDependencies # "undefined" /\ cmd.contexts > 0)
          => includeDependencies' = includeDependencies]_vars
  /\ [](\A d \in DOMAIN descs :
          LET desc == descs[d] IN
            /\ desc.prefRead \in {"true", "false"} =>
                 /\ includeDependencies = desc.prefRead
                 /\ desc.prefRead = "false" => Launched(d) = {}
                 /\ desc.prefRead = "true" =>
                      /\ Cardinality(Launched(d)) = Len(desc.dependencies)
                      /\ \A i \in DOMAIN desc.dependencies :
                           \E c \in Launched(d) :
                             /\ calls[c].packageId = desc.dependencies[i].packageId
                             /\ calls[c].version = desc.dependencies[i].version
            /\ desc.prefRead = "undefined" =>
                 includeDependencies = (IF \E e \in DOMAIN descs :
                                              /\ descs[e].prefRead = "undefined"
                                              /\ descs[e].location = "remote"
                                        THEN "true" ELSE "false"))

\* The preference was defaulted to true by a remote package, and a later
\* call for a local package launched the install of its dependency.
C17_Witness ==
  /\ cmd.state.dependencies = "undefined" /\ includeDependencies = "true"
  /\ \E d \in DOMAIN descs :
       /\ descs[d].location = "local" /\ descs[d].prefRead = "true"
       /\ Launched(d) # {}

\* C18: every descriptor has a path or a remote: a descriptor of local
\* origin always carries a path and is never fetched, a descriptor of remote
\* origin always carries the remote that listed it, so prepare never ends
\* with 'internal error: missing remote'; and a path that is set is never
\* cleared or changed.
C18_PathOrRemote ==
  /\ [](\A d \in DOMAIN descs :
          LET desc == descs[d] IN
            /\ desc.path # NoPath \/ desc.remote # Null
            /\ desc.location = "local" =>
                 (desc.path # NoPath /\ desc.fetches = 0 /\ desc.prepareJob \in {"none", "ok"})
            /\ desc.location = "remote" =>
                 /\ desc.remote # Null
                 /\ \E i \in DOMAIN Catalog(desc.remote) : Catalog(desc.remote)[i] = desc.info
            /\ desc.prepareErr.kind # "internal error: missing remote"
            /\ desc.jobOut.kind # "internal error: missing remote")
  /\ [](\A c \in DOMAIN calls : calls[c].result.kind # "internal error: missing remote")
  /\ [][\A d \in DOMAIN descs : descs[d].path # NoPath => descs'[d].path = descs[d].path]_vars

\* A local package was installed without a fetch, and a remote package was
\* staged by one fetch and installed from the staged path.
C18_Witness ==
  /\ \E d \in DOMAIN descs :
       /\ descs[d].location = "local" /\ descs[d].prepareJob = "ok"
       /\ descs[d].fetches = 0 /\ descs[d].installs = 1
  /\ \E d \in DOMAIN descs :
       /\ descs[d].location = "remote" /\ descs[d].prepareJob = "ok"
       /\ descs[d].fetches = 1 /\ descs[d].path # NoPath /\ descs[d].installs = 1

\* The packages named on the command line have an acyclic dependency graph.
AcyclicRequest ==
  \A i \in DOMAIN cmd.state.packageIds : cmd.state.packageIds[i] \notin {Cyc, Ping, Pong}

\* Every install call made so far has invoked its callback once, and none
\* is still to be made.
AllCalledBack ==
  /\ runq = <<>>
  /\ \A c \in DOMAIN calls : calls[c].pc = "done" /\ calls[c].callbacks = 1

\* No install call has invoked its callback twice.
AtMostOnce == \A c \in DOMAIN calls : calls[c].callbacks <= 1

Ended ==
  /\ runq = <<>>
  /\ cmd.pc \in {"failed", "installing", "complete"}
  /\ \A c \in DOMAIN calls : calls[c].pc \notin {"loadDescriptor", "list"}
  /\ \A d \in DOMAIN descs :
       /\ descs[d].prepareJob # "pending"
       /\ descs[d].installJob \notin {"load", "install", "cleanup"}

\* The descriptors whose install job the job of d waits for: a dependency
\* install launched by d awaits their job.
WaitsOn(d) ==
  {e \in DOMAIN descs :
     \E c \in descs[d].pending, i \in DOMAIN descs[e].waiters : descs[e].waiters[i] = c}

RECURSIVE WaitsWithin(_, _)
WaitsWithin(S, n) ==
  IF n = 0 THEN S ELSE WaitsWithin(S \cup UNION {WaitsOn(e) : e \in S}, n - 1)

\* The descriptors whose job d waits for, directly or through other jobs.
AwaitedBy(d) == WaitsWithin(WaitsOn(d), Len(descs))

\* C20: with dependencies enabled, an install whose dependency graph has a
\* cycle (a package that depends on itself, or two that depend on each
\* other) still ends: no install job waits, directly or transitively, for
\* its own completion, and when every collaborator operation has called
\* back every install call has invoked its callback.
C20_NoSelfWait ==
  /\ \A d \in DOMAIN descs : d \notin AwaitedBy(d)
  /\ Ended => \A c \in DOMAIN calls : calls[c].callbacks = 1
====
